---- MODULE Spec2Model ----
(***************************************************************************)
(* A model of the browser telemetry agent of this repository.              *)
(*                                                                         *)
(* The agent is one script evaluated in a page (src/unnamed/part_000; an   *)
(* earlier file, src/rum-sass.js, holds two older variants evaluated one   *)
(* after the other).  The page is a single event loop: every listener,     *)
(* timer callback and promise reaction runs to completion, so each is one  *)
(* action here.  The state is the tab's sessionStorage, the page's         *)
(* listener table, timers and window.fetch, the instrumented calls in      *)
(* flight, and the log of envelopes handed to the delivery transport.      *)
(*                                                                         *)
(* JavaScript objects are records; { ...a, ...b } is  b @@ a .             *)
(* Time is counted in units of 100 ms.                                     *)
(***************************************************************************)
EXTENDS Integers, Sequences, FiniteSets, TLC

\* ---------------------------------------------------------------- bounds

\* Page loads (script evaluations) of one tab.
MaxLoads == 2
\* Stimuli from outside the agent (user, application, network, idle time).
MaxEvents == 3
\* Calls through window.fetch, the agent's own delivery calls included: room
\* for a session start, a heartbeat and the emissions of MaxNavs navigations.
MaxCalls == 4
\* Wall-clock horizon, in units of 100 ms: past the first heartbeat and the
\* settle timers set within MaxNavEvents stimuli of it.
MaxTime == 200
\* Navigations of one page load.
MaxNavs == 2
\* Stimuli in the navigation scenario.
MaxNavEvents == 4
\* Stimuli in the layout-shift scenario.
MaxVitalEvents == 3
\* Evaluations of the agent in one page load.
MaxEvaluations == 2
\* Stimuli in the scenario of the agent evaluated again.
MaxTwiceEvents == 3
\* XMLHttpRequest objects of one page load.
MaxXhrs == 2
\* Stimuli in the XHR scenario.
MaxXhrEvents == 4
\* Stimuli in the scenario of the older variants.
MaxSassEvents == 3
MaxCallEvents == 3
MaxObserverEvents == 3
MaxUnsupportedEvents == 2

\* ------------------------------------------------------------ JS values

NULL == "<null>"
UNDEFINED == "<undefined>"

\* 'sess-' + Date.now() + '-' + Math.random().toString(16).slice(2), for one
\* draw of the random suffix.
NewSessionId(t) == "sess-" \o ToString(t) \o "-9f3c"

\* data-endpoint-id of the loading tag.
EndpointId == "ep-1"

MetricsUrl == "/rum/page-metrics"
ErrorsUrl == "/rum/errors"

\* String(n) and Number(s) of a time stamp kept in sessionStorage.
String(n) == ToString(n)

Number(s) == IF s = NULL THEN 0 ELSE CHOOSE n \in 0..(MaxTime + 1) : ToString(n) = s

\* A number or null, as <<n>> or <<>>.
None == <<>>

Some(n) == <<n>>

\* n || null : 0 is falsy.
OrNull(n) == IF n = 0 THEN None ELSE Some(n)

\* ---------------------------------------------------------------- state

VARIABLES
  sendBeacon,      \* navigator.sendBeacon is available
  sessionStorage,  \* the tab's storage: survives reloads
  now,             \* Date.now(), in units of 100 ms
  pageNo,          \* page loads of this tab so far
  pc,              \* "loading": document created, agent not yet evaluated; "running"
  rumIds,          \* the identifiers the evaluated agent closed over
  visibilityState, \* document.visibilityState
  listeners,       \* the window's event listeners, in registration order
  windowFetch,     \* the wrappers installed on window.fetch, innermost first
  historyPatch,    \* the wrappers installed on history.pushState / replaceState
  loadFired,       \* the window's load event has been dispatched
  timers,          \* pending setTimeout / setInterval callbacks
  vitals,          \* the observers' latest values
  calls,           \* calls made through window.fetch, in call order
  sent,            \* envelopes handed to the delivery transport, in order
  events,          \* stimuli consumed
  hookCalls,       \* history: the calls of the public hook, with their arguments
  shifts,          \* history: the layout-shift entries observed in this page load
  navs,            \* history: the navigations of this page load
  xhrOpen,         \* the wrappers installed on XMLHttpRequest.prototype.open
  xhrs,            \* the XMLHttpRequest objects of this page load
  supported,       \* the performance entry types this browser can observe
  observers,       \* the entry types a PerformanceObserver of the agent observes
  observed         \* history: the other entries handed to observers in this page load

vars == <<sendBeacon, sessionStorage, now, pageNo, pc, rumIds, visibilityState,
          listeners, windowFetch, historyPatch, loadFired, timers, vitals, calls, sent,
          events, hookCalls, shifts, navs, xhrOpen, xhrs, supported, observers, observed>>

\* The part of the state a callback of the agent can change, as one record.
Machine == [storage |-> sessionStorage, rumIds |-> rumIds, listeners |-> listeners,
            windowFetch |-> windowFetch, historyPatch |-> historyPatch,
            timers |-> timers, vitals |-> vitals, calls |-> calls, sent |-> sent,
            xhrOpen |-> xhrOpen, xhrs |-> xhrs, observers |-> observers, aborted |-> FALSE]

Commit(m) ==
  /\ sessionStorage' = m.storage
  /\ rumIds' = m.rumIds
  /\ listeners' = m.listeners
  /\ windowFetch' = m.windowFetch
  /\ historyPatch' = m.historyPatch
  /\ timers' = m.timers
  /\ vitals' = m.vitals
  /\ calls' = m.calls
  /\ sent' = m.sent
  /\ xhrOpen' = m.xhrOpen
  /\ xhrs' = m.xhrs
  /\ observers' = m.observers

\* What a callback runs in: the page load, the wall clock, the visibility, and
\* the application call the callback is a consequence of (0: none).
Ctx(cause) == [page |-> pageNo, now |-> now, visibility |-> visibilityState, cause |-> cause]

\* ------------------------------------------------ values thrown and returned

\* What a rejected fetch can reject with: a TypeError object (network failure),
\* and the reason given to AbortController.abort(reason): any value, here a
\* string and null.
TypeErr == [t |-> "error", v |-> "Failed to fetch"]

StrErr == [t |-> "string", v |-> "aborted"]

NullErr == [t |-> "null", v |-> ""]

RejectValues == {TypeErr, StrErr, NullErr}

\* The TypeError of reading a property of null.
PropertyOfNull == [t |-> "error", v |-> "Cannot read properties of null"]

\* HTTP statuses a response can carry.
Statuses == {200, 400, 500}

\* String(err)
ErrToString(err) ==
  CASE err.t = "error" -> (IF err.v = "" THEN "TypeError" ELSE "TypeError: " \o err.v)
    [] err.t = "string" -> err.v
    [] OTHER -> "null"

\* err?.message || String(err)
ErrMessage(err) == IF err.t = "error" /\ err.v # "" THEN err.v ELSE ErrToString(err)

\* The settled state of a promise: pending, fulfilled with a response of the
\* given status, or rejected with a value.
Pending == [kind |-> "pending", status |-> 0, err |-> NullErr]

Fulfilled(status) == [kind |-> "fulfilled", status |-> status, err |-> NullErr]

Rejected(err) == [kind |-> "rejected", status |-> 0, err |-> err]

Outcomes == {Fulfilled(s) : s \in Statuses} \cup {Rejected(e) : e \in RejectValues}

\* ------------------------------------------------------------- delivery

\* One entry of the log: the envelope as handed to the transport, the channel
\* and endpoint, the page load, and the application call it is a consequence of.
Envelope(cx, via, url, payload) ==
  [page |-> cx.page, via |-> via, url |-> url, payload |-> payload, cause |-> cx.cause]

\* A call of window.fetch(input, init): the wrappers installed at that moment
\* will see its result.  origin is "app" (the page's own code) or "delivery".
NewCall(m, cx, input, init, origin) ==
  [origin |-> origin, page |-> cx.page, root |-> cx.cause, input |-> input, init |-> init,
   start |-> cx.now, wrappers |-> m.windowFetch, native |-> Pending, seen |-> Pending]

fetch(m, cx, input, init, origin) ==
  [m EXCEPT !.calls = Append(@, NewCall(m, cx, input, init, origin))]

StringInput(url) == [kind |-> "string", href |-> url, url |-> UNDEFINED]

PostInit == [method |-> "POST"]

post(m, cx, url, payload, useBeacon) ==
  IF useBeacon /\ sendBeacon
    THEN [m EXCEPT !.sent = Append(@, Envelope(cx, "beacon", url, payload))]
    ELSE fetch([m EXCEPT !.sent = Append(@, Envelope(cx, "fetch", url, payload))],
               cx, StringInput(url), PostInit, "delivery")

\* Mutant: the handler throws the failure again.
postCatchRethrow(out) == out

\* .catch(() => {}) on the promise of a delivery call: a failure is taken and
\* the promise post returns resolves to undefined.
postCatch(out) ==
  IF out.kind = "rejected" THEN [kind |-> "swallowed", status |-> 0, err |-> NullErr] ELSE out

\* { ...data, ...rumIds }
sendMetrics(m, cx, data) == post(m, cx, MetricsUrl, m.rumIds @@ data, TRUE)

sendError(m, cx, data) == post(m, cx, ErrorsUrl, m.rumIds @@ data, FALSE)

\* --------------------------------------------------- the instrumented fetch

\* (init.method || 'GET').toUpperCase()
ToUpperCase(str) ==
  CASE str = "post" -> "POST"
    [] str = "get" -> "GET"
    [] OTHER -> str

Method(init) == ToUpperCase(IF init.method = NULL THEN "GET" ELSE init.method)

\* typeof input === 'string' ? input : input.url
Endpoint(input) == IF input.kind = "string" THEN input.href ELSE input.url

\* response.status >= 400
IsErrorStatus(status) == status >= 400

\* The network call record of a call that got a response.
ApiRecord(cx, c, status) ==
  [type |-> "fetch", method |-> Method(c.init), endpoint |-> Endpoint(c.input),
   status |-> Some(status), duration |-> cx.now - c.start,
   start_epoch_ms |-> c.start, end_epoch_ms |-> cx.now]

\* The reaction to the original call's response.
fetchThen(m, cx, c, status) ==
  IF IsErrorStatus(status)
    THEN sendError(m, cx, [trigger |-> "api_call_error", api |-> ApiRecord(cx, c, status)])
    ELSE sendMetrics(m, cx, [trigger |-> "api_call", api |-> ApiRecord(cx, c, status)])

\* The reaction to the original call's failure, before the value is thrown again.
fetchCatch(m, cx, c, err) ==
  sendError(m, cx,
    [trigger |-> "api_call_exception",
     api |-> [type |-> "fetch", method |-> Method(c.init), endpoint |-> Endpoint(c.input),
              status |-> None, duration |-> cx.now - c.start, error |-> ErrMessage(err),
              start_epoch_ms |-> c.start, end_epoch_ms |-> cx.now]])

\* throw err
Rethrow(err) == err

\* fetchFn.call(this, input, init).then(...).catch(...): what the wrapper does
\* with the settled result `out` of the call it wraps, and what it settles to.
patchedFetch(m, cx, c, out) ==
  IF out.kind = "fulfilled"
    THEN [m |-> fetchThen(m, cx, c, out.status), out |-> out]
    ELSE [m |-> fetchCatch(m, cx, c, out.err), out |-> Rejected(Rethrow(out.err))]

\* ------------------------------- src/rum-sass.js: delivery, instrumented fetch
\* The file holds two variants, each a function evaluated on the spot: _v1 is
\* the first (lines 1-316), _v2 the second (lines 318-644).

\* "http://localhost:8000", the default of data-api-url and data-errors-url
ApiBaseUrl == "http://localhost:8000"

\* if (navigator.sendBeacon) navigator.sendBeacon(url, blob) else fetch(url, ...).catch(console.error)
BeaconOrFetch(m, cx, url, payload) ==
  IF sendBeacon
    THEN [m EXCEPT !.sent = Append(@, Envelope(cx, "beacon", url, payload))]
    ELSE fetch([m EXCEPT !.sent = Append(@, Envelope(cx, "fetch", url, payload))],
               cx, StringInput(url), PostInit, "delivery")

sendMetrics_v1(m, cx, data) == BeaconOrFetch(m, cx, ApiBaseUrl \o MetricsUrl, m.rumIds @@ data)

\* fetch(url, { method: "POST", ... }).catch(console.error)
sendError_v1(m, cx, data) ==
  fetch([m EXCEPT !.sent = Append(@, Envelope(cx, "fetch", ApiBaseUrl \o ErrorsUrl,
                                               m.rumIds @@ data))],
        cx, StringInput(ApiBaseUrl \o ErrorsUrl), PostInit, "delivery")

\* { ...data, session_id: rumIds.session_id, endpoint_id: rumIds.endpoint_id }
sendMetrics_v2(m, cx, data) == BeaconOrFetch(m, cx, ApiBaseUrl \o MetricsUrl, m.rumIds @@ data)

\* init.method || "GET"
MethodAsGiven(init) == IF init.method = NULL THEN "GET" ELSE init.method

\* err.message, of a value that is not null
MessageOf(err) == IF err.t = "error" THEN err.v ELSE UNDEFINED

\* The first variant's record of a call.
ApiRecord_v1(cx, c, status) ==
  [type |-> "fetch", method |-> MethodAsGiven(c.init), endpoint |-> Endpoint(c.input),
   status |-> status, duration |-> cx.now - c.start]

\* The first variant's wrapper: .then(response => ...).catch(err => ...).  The
\* catch handler reads err.message, which throws when err is null.
patchedFetch_v1(m, cx, c, out) ==
  IF out.kind = "fulfilled"
    THEN [m |-> IF out.status >= 400
                  THEN sendError_v1(m, cx, [trigger |-> "api_call_error",
                                            api |-> ApiRecord_v1(cx, c, Some(out.status))])
                  ELSE sendMetrics_v1(m, cx, [trigger |-> "api_call",
                                              api |-> ApiRecord_v1(cx, c, Some(out.status))]),
          out |-> out]
    ELSE IF out.err.t = "null"
      THEN [m |-> m, out |-> Rejected(PropertyOfNull)]
      ELSE [m |-> sendError_v1(m, cx,
                    [trigger |-> "api_call_exception",
                     api |-> ApiRecord_v1(cx, c, None) @@ [error |-> MessageOf(out.err)]]),
            out |-> Rejected(out.err)]

\* What the second variant puts in every envelope itself.
Stamp_v2(m, cx) == [url |-> "https://app.example/", timestamp |-> cx.now]

\* The second variant's wrapper: every response is an api_call, every failure an
\* api_call_error, both sent by sendMetrics.
patchedFetch_v2(m, cx, c, out) ==
  IF out.kind = "fulfilled"
    THEN [m |-> sendMetrics_v2(m, cx,
                  Stamp_v2(m, cx) @@ [trigger |-> "api_call",
                                      api |-> ApiRecord_v1(cx, c, Some(out.status))]),
          out |-> out]
    ELSE IF out.err.t = "null"
      THEN [m |-> m, out |-> Rejected(PropertyOfNull)]
      ELSE [m |-> sendMetrics_v2(m, cx,
                    Stamp_v2(m, cx) @@
                      [trigger |-> "api_call_error",
                       api |-> ApiRecord_v1(cx, c, None) @@ [error |-> MessageOf(out.err)]]),
            out |-> Rejected(out.err)]

\* The wrapper of that name reacts.
RunWrapper(w, m, cx, c, out) ==
  CASE w = "part_000" -> patchedFetch(m, cx, c, out)
    [] w = "rum-sass.js#1" -> patchedFetch_v1(m, cx, c, out)
    [] w = "rum-sass.js#2" -> patchedFetch_v2(m, cx, c, out)
    [] OTHER -> [m |-> m, out |-> out]

\* The wrappers of call c react innermost first, each to the result of the one
\* it wraps.
RECURSIVE Unwind(_, _, _, _, _)
Unwind(m, cx, c, out, i) ==
  IF i > Len(c.wrappers)
    THEN [m |-> m, out |-> out]
    ELSE LET r == RunWrapper(c.wrappers[i], m, cx, c, out)
         IN Unwind(r.m, cx, c, r.out, i + 1)

\* The application call a call is a consequence of: itself, or its root.
RootOf(id) == IF calls[id].origin = "app" THEN id ELSE calls[id].root

\* ------------------------------------------------- the instrumented XHR

\* The cause of what the n-th ended XHR call of the page load leads to: a
\* number below 0, those above being calls of window.fetch.
XhrCause(n) == 0 - n

\* new XMLHttpRequest()
NewXhr == [reqData |-> [method |-> UNDEFINED, url |-> UNDEFINED, start |-> None],
           readystatechange |-> <<>>, loadend |-> <<>>, readyState |-> 0, ended |-> 0]

\* this._reqData = { method: (method || 'GET').toUpperCase(), url }; the listeners
\* are added on every call of open.
patchedOpen(xhr, method, url) ==
  [xhr EXCEPT !.reqData = [method |-> ToUpperCase(IF method = NULL THEN "GET" ELSE method),
                           url |-> url, start |-> None],
              !.readystatechange = Append(@, "part_000"),
              !.loadend = Append(@, "part_000")]

\* src/rum-sass.js, both variants: this._reqData = { method, url, start: performance.now() }.
\* The first adds a readystatechange and a loadend listener, the second a
\* loadend listener.
patchedOpen_v1(xhr, cx, method, url) ==
  [xhr EXCEPT !.reqData = [method |-> method, url |-> url, start |-> Some(cx.now)],
              !.readystatechange = Append(@, "rum-sass.js#1"),
              !.loadend = Append(@, "rum-sass.js#1")]

patchedOpen_v2(xhr, cx, method, url) ==
  [xhr EXCEPT !.reqData = [method |-> method, url |-> url, start |-> Some(cx.now)],
              !.loadend = Append(@, "rum-sass.js#2")]

\* The readystatechange listener of part_000 at readyState 1: the headers are
\* set and this._reqData.startMono = performance.now().
onReadyStateChange(xhr, cx) ==
  IF xhr.readyState = 1 THEN [xhr EXCEPT !.reqData.start = Some(cx.now)] ELSE xhr

\* The original open: readyState becomes 1 and readystatechange is dispatched.
nativeOpen(xhr, cx) ==
  LET opened == [xhr EXCEPT !.readyState = 1]
  IN IF \E i \in 1..Len(xhr.readystatechange) : xhr.readystatechange[i] = "part_000"
       THEN onReadyStateChange(opened, cx)
       ELSE opened

\* xhr.open(method, url) through the wrappers installed, the outermost (the last
\* installed) first, each calling the one it wraps.
RECURSIVE open(_, _, _, _, _)
open(xhr, cx, method, url, wrappers) ==
  IF wrappers = <<>> THEN nativeOpen(xhr, cx)
  ELSE LET w == wrappers[Len(wrappers)]
           inner == SubSeq(wrappers, 1, Len(wrappers) - 1)
           x == CASE w = "part_000" -> patchedOpen(xhr, method, url)
                  [] w = "rum-sass.js#1" -> patchedOpen_v1(xhr, cx, method, url)
                  [] w = "rum-sass.js#2" -> patchedOpen_v2(xhr, cx, method, url)
                  [] OTHER -> xhr
       IN open(x, cx, method, url, inner)

\* The record of the loadend listener of part_000.
XhrRecord(xhr, cx, status) ==
  LET startMono == xhr.reqData.start
  IN [type |-> "xhr", method |-> xhr.reqData.method, endpoint |-> xhr.reqData.url,
      status |-> Some(status),
      duration |-> IF startMono = None THEN 0 ELSE cx.now - startMono[1],
      start_epoch_ms |-> IF startMono = None THEN 0 ELSE startMono[1],
      end_epoch_ms |-> cx.now]

\* The loadend listener of part_000: this.status >= 400 ? sendError : sendMetrics
onLoadEnd(m, cx, xhr, status) ==
  IF status >= 400
    THEN sendError(m, cx, [trigger |-> "api_call_error", api |-> XhrRecord(xhr, cx, status)])
    ELSE sendMetrics(m, cx, [trigger |-> "api_call", api |-> XhrRecord(xhr, cx, status)])

\* src/rum-sass.js: the record of both variants' loadend listeners.
XhrRecord_v1(xhr, cx, status) ==
  [type |-> "xhr", method |-> xhr.reqData.method, endpoint |-> xhr.reqData.url,
   status |-> Some(status), duration |-> cx.now - xhr.reqData.start[1]]

onLoadEnd_v1(m, cx, xhr, status) ==
  IF status >= 400
    THEN sendError_v1(m, cx, [trigger |-> "api_call_error",
                              api |-> XhrRecord_v1(xhr, cx, status)])
    ELSE sendMetrics_v1(m, cx, [trigger |-> "api_call", api |-> XhrRecord_v1(xhr, cx, status)])

onLoadEnd_v2(m, cx, xhr, status) ==
  sendMetrics_v2(m, cx, Stamp_v2(m, cx) @@ [trigger |-> "api_call",
                                            api |-> XhrRecord_v1(xhr, cx, status)])

\* loadend is dispatched on the object: its listeners run in the order added.
RECURSIVE dispatchLoadEnd(_, _, _, _, _)
dispatchLoadEnd(m, cx, xhr, status, ls) ==
  IF ls = <<>> THEN m
  ELSE LET m1 == CASE Head(ls) = "part_000" -> onLoadEnd(m, cx, xhr, status)
                   [] Head(ls) = "rum-sass.js#1" -> onLoadEnd_v1(m, cx, xhr, status)
                   [] Head(ls) = "rum-sass.js#2" -> onLoadEnd_v2(m, cx, xhr, status)
                   [] OTHER -> m
       IN dispatchLoadEnd(m1, cx, xhr, status, Tail(ls))

\* The XHR calls of the page load that have ended.
RECURSIVE XhrEndedIn(_)
XhrEndedIn(objects) ==
  IF objects = <<>> THEN 0 ELSE Head(objects).ended + XhrEndedIn(Tail(objects))

\* ------------------------------------------------------------- assembler

PageUrl == "https://app.example/"

\* let fpValue = null, fcpValue = null, lcpValue = null; let fidValue = null,
\* inpValue = null; let clsValue = 0
InitialVitals == [fp |-> None, fcp |-> None, lcp |-> None, fid |-> None, inp |-> None, cls |-> 0]

\* ------------------------------------------------------------- observers

\* The entry types the agent asks to observe, in the order of the script.
ObserverOrder == <<"paint", "largest-contentful-paint", "first-input", "event", "layout-shift">>

EntryTypes == {ObserverOrder[i] : i \in 1..Len(ObserverOrder)}

\* durationThreshold: 16
DurationThreshold == 16

\* Mutant: the registration is not inside a try block, and what it throws ends
\* the script.
observeUncaught(m, type) ==
  IF type \in supported THEN [m EXCEPT !.observers = @ \cup {type}]
                        ELSE [m EXCEPT !.aborted = TRUE]

\* try { new PerformanceObserver(...).observe({ type, buffered: true }) } catch {}
tryObserve(m, type) ==
  IF type \in supported THEN [m EXCEPT !.observers = @ \cup {type}] ELSE m

\* The five registrations, top to bottom.
RECURSIVE registerObservers(_, _)
registerObservers(m, types) ==
  IF types = <<>> \/ m.aborted THEN m
  ELSE registerObservers(tryObserve(m, Head(types)), Tail(types))

\* A performance entry, with the fields the callbacks read.
PerfEntry(type, name, startTime, processingStart, duration, interactionId) ==
  [entryType |-> type, name |-> name, startTime |-> startTime,
   processingStart |-> processingStart, duration |-> duration, interactionId |-> interactionId]

\* Mutant: the name of the entry is not tested for first-paint.
RECURSIVE paintObserverAnyName(_, _)
paintObserverAnyName(v, entries) ==
  IF entries = <<>> THEN v
  ELSE LET e == Head(entries)
           v1 == [v EXCEPT !.fp = Some(e.startTime)]
           v2 == IF e.name = "first-contentful-paint" THEN [v1 EXCEPT !.fcp = Some(e.startTime)]
                                                      ELSE v1
       IN paintObserverAnyName(v2, Tail(entries))

\* for (const e of list.getEntries()) { if (e.name === 'first-paint') fpValue = e.startTime;
\*   if (e.name === 'first-contentful-paint') fcpValue = e.startTime; }
RECURSIVE paintObserver(_, _)
paintObserver(v, entries) ==
  IF entries = <<>> THEN v
  ELSE LET e == Head(entries)
           v1 == IF e.name = "first-paint" THEN [v EXCEPT !.fp = Some(e.startTime)] ELSE v
           v2 == IF e.name = "first-contentful-paint" THEN [v1 EXCEPT !.fcp = Some(e.startTime)]
                                                      ELSE v1
       IN paintObserver(v2, Tail(entries))

\* const last = entries[entries.length - 1]; if (last) lcpValue = last.startTime;
lcpObserver(v, entries) ==
  IF entries = <<>> THEN v ELSE [v EXCEPT !.lcp = Some(entries[Len(entries)].startTime)]

\* if (entry.entryType === 'first-input') fidValue = entry.processingStart - entry.startTime;
RECURSIVE fidObserver(_, _)
fidObserver(v, entries) ==
  IF entries = <<>> THEN v
  ELSE LET e == Head(entries)
       IN fidObserver(IF e.entryType = "first-input"
                        THEN [v EXCEPT !.fid = Some(e.processingStart - e.startTime)]
                        ELSE v,
                      Tail(entries))

\* Mutant: the interaction identifier is not tested.
RECURSIVE inpObserverAnyEntry(_, _)
inpObserverAnyEntry(v, entries) ==
  IF entries = <<>> THEN v
  ELSE inpObserverAnyEntry([v EXCEPT !.inp = Some(Head(entries).duration)], Tail(entries))

\* if (entry.interactionId) inpValue = entry.duration;
RECURSIVE inpObserver(_, _)
inpObserver(v, entries) ==
  IF entries = <<>> THEN v
  ELSE LET e == Head(entries)
       IN inpObserver(IF e.interactionId # 0 THEN [v EXCEPT !.inp = Some(e.duration)] ELSE v,
                      Tail(entries))

\* The browser queues an event entry for an observer when its duration is at
\* least the observer's durationThreshold.
ShouldAdd(entry) == entry.duration >= DurationThreshold

\* The callback of the observer of a type.
ObserverCallback(type, v, entries) ==
  CASE type = "paint" -> paintObserver(v, entries)
    [] type = "largest-contentful-paint" -> lcpObserver(v, entries)
    [] type = "first-input" -> fidObserver(v, entries)
    [] type = "event" -> inpObserver(v, entries)

\* Mutant: the flag is not consulted.
RECURSIVE clsObserverUnfiltered(_, _)
clsObserverUnfiltered(clsValue, entries) ==
  IF entries = <<>> THEN clsValue
  ELSE clsObserverUnfiltered(clsValue + Head(entries).value, Tail(entries))

\* for (const entry of list.getEntries()) { if (!entry.hadRecentInput) clsValue += entry.value; }
RECURSIVE clsObserver(_, _)
clsObserver(clsValue, entries) ==
  IF entries = <<>> THEN clsValue
  ELSE clsObserver(IF ~Head(entries).hadRecentInput THEN clsValue + Head(entries).value
                                                      ELSE clsValue,
                   Tail(entries))

\* What the document itself loaded.
PageResources == <<[name |-> "/app.js", initiatorType |-> "script", startTime |-> 0]>>

\* performance.getEntriesByType('resource'): the loads of the document, the
\* finished calls of fetch, the finished calls of XMLHttpRequest (under the url
\* of the object's latest open) and the beacons handed to the browser, each with
\* the initiator type the browser gives it.
RECURSIVE XhrResources(_)
XhrResources(objects) ==
  IF objects = <<>> THEN <<>>
  ELSE [i \in 1..Head(objects).ended |->
          [name |-> Head(objects).reqData.url, initiatorType |-> "xmlhttprequest",
           startTime |-> IF Head(objects).reqData.start = None
                           THEN 0 ELSE Head(objects).reqData.start[1]]]
         \o XhrResources(Tail(objects))

getResourceEntries(m, cx) ==
  LET finished == SelectSeq(m.calls, LAMBDA c : c.page = cx.page /\ c.native.kind # "pending")
      beacons == SelectSeq(m.sent, LAMBDA e : e.page = cx.page /\ e.via = "beacon")
  IN PageResources
       \o [i \in 1..Len(finished) |->
             [name |-> finished[i].input.href, initiatorType |-> "fetch",
              startTime |-> finished[i].start]]
       \o XhrResources(m.xhrs)
       \o [i \in 1..Len(beacons) |->
             [name |-> beacons[i].url, initiatorType |-> "beacon", startTime |-> cx.now]]

\* resources.filter((r) => r.initiatorType !== 'beacon').map((r) => ({ name, type, ... }))
collectResourceMetrics(m, cx) ==
  LET kept == SelectSeq(getResourceEntries(m, cx), LAMBDA r : r.initiatorType # "beacon")
  IN [i \in 1..Len(kept) |->
        [name |-> kept[i].name, type |-> kept[i].initiatorType, startTime |-> kept[i].startTime]]

collectEnvironmentMetrics == [user_agent |-> "ua", language |-> "en", connection |-> "not_supported"]

\* Mutant: largest_contentful_paint: fcpValue
collectRUMMetricsWrongField(m, cx, trigger) ==
  [url |-> PageUrl, timestamp |-> cx.now, trigger |-> trigger,
   metrics |-> [first_paint |-> m.vitals.fp, first_contentful_paint |-> m.vitals.fcp,
                largest_contentful_paint |-> m.vitals.fcp, first_input_delay |-> m.vitals.fid,
                interaction_to_next_paint |-> m.vitals.inp,
                cumulative_layout_shift |-> m.vitals.cls,
                resources |-> collectResourceMetrics(m, cx)]]

collectRUMMetrics(m, cx, trigger) ==
  [url |-> PageUrl, timestamp |-> cx.now, trigger |-> trigger,
   metrics |-> [first_paint |-> m.vitals.fp, first_contentful_paint |-> m.vitals.fcp,
                largest_contentful_paint |-> m.vitals.lcp, first_input_delay |-> m.vitals.fid,
                interaction_to_next_paint |-> m.vitals.inp,
                cumulative_layout_shift |-> m.vitals.cls,
                resources |-> collectResourceMetrics(m, cx)]]

\* ---------------------------------------------------------------- timers

\* setTimeout(..., 1000), setTimeout(..., 300), setInterval(..., 15000)
LoadSettle == 10

SpaSettle == 3

HeartbeatEvery == 150

setTimeout(m, fn, delay) ==
  [m EXCEPT !.timers = Append(@, [fn |-> fn, left |-> delay, every |-> 0])]

setInterval(m, fn, delay) ==
  [m EXCEPT !.timers = Append(@, [fn |-> fn, left |-> delay, every |-> delay])]

sendHeartbeat(m, cx) ==
  sendMetrics(m, cx, [trigger |-> "heartbeat", environment |-> collectEnvironmentMetrics])

\* src/rum-sass.js: the assembler and the heartbeat, alike in both variants but
\* for what the second stamps on the heartbeat.
collectRUMMetrics_v1(m, cx, trigger) ==
  [url |-> PageUrl, timestamp |-> cx.now, trigger |-> trigger,
   metrics |-> [first_paint |-> m.vitals.fp, first_contentful_paint |-> m.vitals.fcp,
                largest_contentful_paint |-> m.vitals.lcp, first_input_delay |-> m.vitals.fid,
                interaction_to_next_paint |-> m.vitals.inp,
                cumulative_layout_shift |-> m.vitals.cls,
                resources |-> collectResourceMetrics(m, cx)]]

sendHeartbeat_v1(m, cx) ==
  sendMetrics_v1(m, cx, [trigger |-> "heartbeat", environment |-> collectEnvironmentMetrics])

sendHeartbeat_v2(m, cx) ==
  sendMetrics_v2(m, cx, Stamp_v2(m, cx) @@ [trigger |-> "heartbeat",
                                            environment |-> collectEnvironmentMetrics])

\* The body of a timer callback.
RunTimer(m, cx, fn) ==
  CASE fn = "heartbeat" -> sendHeartbeat(m, cx)
    [] fn = "page_load" -> sendMetrics(m, cx, collectRUMMetrics(m, cx, "page_load"))
    [] fn = "spa_navigation" -> sendMetrics(m, cx, collectRUMMetrics(m, cx, "spa_navigation"))
    [] fn = "heartbeat_v1" -> sendHeartbeat_v1(m, cx)
    [] fn = "page_load_v1" -> sendMetrics_v1(m, cx, collectRUMMetrics_v1(m, cx, "page_load"))
    [] fn = "spa_navigation_v1" ->
         sendMetrics_v1(m, cx, collectRUMMetrics_v1(m, cx, "spa_navigation"))
    [] fn = "heartbeat_v2" -> sendHeartbeat_v2(m, cx)
    [] fn = "page_load_v2" -> sendMetrics_v2(m, cx, collectRUMMetrics_v1(m, cx, "page_load"))
    [] fn = "spa_navigation_v2" ->
         sendMetrics_v2(m, cx, collectRUMMetrics_v1(m, cx, "spa_navigation"))
    [] OTHER -> m

\* ------------------------------------------------------------- listeners

addEventListener(m, evt, fn, once) ==
  [m EXCEPT !.listeners = Append(@, [evt |-> evt, fn |-> fn, once |-> once])]

RECURSIVE RemoveFirst(_, _)
RemoveFirst(seq, x) ==
  IF seq = <<>> THEN <<>>
  ELSE IF Head(seq) = x THEN Tail(seq)
  ELSE <<Head(seq)>> \o RemoveFirst(Tail(seq), x)

Registered(m, l) == \E i \in 1..Len(m.listeners) : m.listeners[i] = l

\* The session-end listener registered for event evt.
sessionEnd(m, cx, evt) ==
  IF cx.visibility = "hidden" \/ evt # "visibilitychange"
    THEN sendMetrics(m, cx,
           [trigger |-> "session_end",
            session |-> [start_epoch_ms |-> OrNull(Number(m.storage.rum_session_start)),
                         end_ts |-> cx.now, end_epoch_ms |-> cx.now]])
    ELSE m

\* window 'error'
onError(m, cx, event) ==
  sendError(m, cx,
    [trigger |-> "js_error",
     error |-> [message |-> event.message, source |-> event.filename,
                stack |-> IF event.error = NULL THEN NULL ELSE event.error]])

\* event.reason ? event.reason.message || String(event.reason) : 'Unhandled Promise Rejection'
ReasonMessage(reason) ==
  IF reason.t = "null" \/ (reason.t = "string" /\ reason.v = "")
    THEN "Unhandled Promise Rejection"
    ELSE ErrMessage(reason)

\* window 'unhandledrejection'
onUnhandledRejection(m, cx, event) ==
  sendError(m, cx,
    [trigger |-> "js_promise_rejection",
     error |-> [message |-> ReasonMessage(event.reason),
                stack |-> IF event.reason.t = "error" THEN "stack" ELSE NULL]])

\* Mutant: the vitals are sent in the listener itself, without the timer.
onLoadNoSettle(m, cx) ==
  sendMetrics(sendMetrics(m, cx, [trigger |-> "environment",
                                  environment |-> collectEnvironmentMetrics]),
              cx, collectRUMMetrics(m, cx, "page_load"))

\* window 'load', first listener
onLoad(m, cx) ==
  setTimeout(sendMetrics(m, cx, [trigger |-> "environment",
                                 environment |-> collectEnvironmentMetrics]),
             "page_load", LoadSettle)

\* Mutant: a pending settle timer is cleared before the new one is set.
onSpaNavigationDebounced(m, cx) ==
  setTimeout([m EXCEPT !.timers = SelectSeq(@, LAMBDA t : t.fn # "spa_navigation")],
             "spa_navigation", SpaSettle)

\* Mutant: a navigation starts the heartbeat interval afresh.
onSpaNavigationRestartsHeartbeat(m, cx) ==
  setTimeout([m EXCEPT !.timers = [i \in 1..Len(@) |->
                                    IF @[i].fn = "heartbeat"
                                      THEN [@[i] EXCEPT !.left = HeartbeatEvery] ELSE @[i]]],
             "spa_navigation", SpaSettle)

\* window 'spa-navigation'
onSpaNavigation(m, cx) == setTimeout(m, "spa_navigation", SpaSettle)

\* src/rum-sass.js: the listeners of the two variants.

\* event.reason ? event.reason.message || event.reason : "Unhandled Promise Rejection"
ReasonOrMessage(reason) ==
  IF reason.t = "null" \/ (reason.t = "string" /\ reason.v = "")
    THEN "Unhandled Promise Rejection"
    ELSE IF reason.t = "error" /\ reason.v = "" THEN "{}" ELSE reason.v

ErrorOf(event) ==
  [message |-> event.message, source |-> event.filename,
   stack |-> IF event.error = NULL THEN NULL ELSE event.error]

RejectionOf(event) ==
  [message |-> ReasonOrMessage(event.reason),
   stack |-> IF event.reason.t = "error" THEN "stack" ELSE NULL]

onError_v1(m, cx, event) ==
  sendError_v1(m, cx, [trigger |-> "js_error", error |-> ErrorOf(event)])

onUnhandledRejection_v1(m, cx, event) ==
  sendError_v1(m, cx, [trigger |-> "js_promise_rejection", error |-> RejectionOf(event)])

\* The second variant sends both by sendMetrics.
onError_v2(m, cx, event) ==
  sendMetrics_v2(m, cx, Stamp_v2(m, cx) @@ [trigger |-> "js_error", error |-> ErrorOf(event)])

onUnhandledRejection_v2(m, cx, event) ==
  sendMetrics_v2(m, cx, Stamp_v2(m, cx) @@ [trigger |-> "js_promise_rejection",
                                            error |-> RejectionOf(event)])

onLoadEnvironment_v1(m, cx) ==
  sendMetrics_v1(m, cx, [trigger |-> "environment", environment |-> collectEnvironmentMetrics])

onLoadEnvironment_v2(m, cx) ==
  sendMetrics_v2(m, cx, Stamp_v2(m, cx) @@ [trigger |-> "environment",
                                            environment |-> collectEnvironmentMetrics])

RECURSIVE DispatchTo(_, _, _, _), RunListener(_, _, _, _)

\* window.dispatchEvent: the listeners registered for the event when the
\* dispatch starts run in registration order; a once-listener is removed
\* before it runs.
DispatchTo(m, cx, ls, event) ==
  IF ls = <<>> THEN m
  ELSE LET l == Head(ls)
           m1 == IF l.once THEN [m EXCEPT !.listeners = RemoveFirst(@, l)] ELSE m
       IN IF Registered(m, l)
            THEN DispatchTo(RunListener(m1, cx, l, event), cx, Tail(ls), event)
            ELSE DispatchTo(m, cx, Tail(ls), event)

ListenersFor(m, evt) == SelectSeq(m.listeners, LAMBDA l : l.evt = evt)

dispatchEvent(m, cx, event) == DispatchTo(m, cx, ListenersFor(m, event.type), event)

RunListener(m, cx, l, event) ==
  CASE l.fn = "sessionEnd" -> sessionEnd(m, cx, l.evt)
    [] l.fn = "onError" -> onError(m, cx, event)
    [] l.fn = "onUnhandledRejection" -> onUnhandledRejection(m, cx, event)
    [] l.fn = "onLoad" -> onLoad(m, cx)
    [] l.fn = "sendHeartbeat" -> sendHeartbeat(m, cx)
    [] l.fn = "onPopstate" -> dispatchEvent(m, cx, [type |-> "spa-navigation"])
    [] l.fn = "onSpaNavigation" -> onSpaNavigation(m, cx)
    [] l.fn = "onError_v1" -> onError_v1(m, cx, event)
    [] l.fn = "onUnhandledRejection_v1" -> onUnhandledRejection_v1(m, cx, event)
    [] l.fn = "onLoadEnvironment_v1" -> onLoadEnvironment_v1(m, cx)
    [] l.fn = "onLoadPageLoad_v1" -> setTimeout(m, "page_load_v1", LoadSettle)
    [] l.fn = "onSpaNavigation_v1" -> setTimeout(m, "spa_navigation_v1", SpaSettle)
    [] l.fn = "sendHeartbeat_v1" -> sendHeartbeat_v1(m, cx)
    [] l.fn = "onError_v2" -> onError_v2(m, cx, event)
    [] l.fn = "onUnhandledRejection_v2" -> onUnhandledRejection_v2(m, cx, event)
    [] l.fn = "onLoadEnvironment_v2" -> onLoadEnvironment_v2(m, cx)
    [] l.fn = "onLoadPageLoad_v2" -> setTimeout(m, "page_load_v2", LoadSettle)
    [] l.fn = "onSpaNavigation_v2" -> setTimeout(m, "spa_navigation_v2", SpaSettle)
    [] l.fn = "sendHeartbeat_v2" -> sendHeartbeat_v2(m, cx)
    [] OTHER -> m

\* ------------------------------------------------- the agent's evaluation

\* Mutant: the stored identifier is ignored and a new one made on every load.
getOrCreateSessionIdFresh(storage, t) == NewSessionId(t)

\* sessionStorage.getItem('rum_session_id') || 'sess-' + Date.now() + '-' + random
getOrCreateSessionId(storage, t) ==
  IF storage.rum_session_id # NULL THEN storage.rum_session_id ELSE NewSessionId(t)

\* The session identifier is read or made, stored, and closed over as rumIds.
identify(m, cx) ==
  LET sessionId == getOrCreateSessionId(m.storage, cx.now)
  IN [m EXCEPT !.storage.rum_session_id = sessionId,
               !.rumIds = [session_id |-> sessionId, endpoint_id |-> EndpointId]]

\* Mutant: the marker is not consulted.
NoStartMarkerUnchecked(storage) == TRUE

\* !sessionStorage.getItem('rum_session_start')
NoStartMarker(storage) == storage.rum_session_start = NULL

\* Mutant: the marker is stored and no envelope is sent.
sessionStartSilent(m, cx) ==
  IF NoStartMarker(m.storage)
    THEN [m EXCEPT !.storage.rum_session_start = String(cx.now)]
    ELSE m

\* The session start block.
sessionStart(m, cx) ==
  IF NoStartMarker(m.storage)
    THEN sendMetrics([m EXCEPT !.storage.rum_session_start = String(cx.now)], cx,
           [trigger |-> "session_start",
            session |-> [start_ts |-> cx.now, start_epoch_ms |-> cx.now]])
    ELSE m

UnloadEvents == <<"pagehide", "visibilitychange", "beforeunload">>

\* ['pagehide', 'visibilitychange', 'beforeunload'].forEach(... { once: true })
sessionEndListeners(m) ==
  addEventListener(
    addEventListener(
      addEventListener(m, UnloadEvents[1], "sessionEnd", TRUE),
      UnloadEvents[2], "sessionEnd", TRUE),
    UnloadEvents[3], "sessionEnd", TRUE)

errorListeners(m) ==
  addEventListener(addEventListener(m, "error", "onError", FALSE),
                   "unhandledrejection", "onUnhandledRejection", FALSE)

\* (function (fetchFn) { window.fetch = function ... })(window.fetch)
patchFetch(m) == [m EXCEPT !.windowFetch = Append(@, "part_000")]

\* (function (open) { XMLHttpRequest.prototype.open = function ... })(XMLHttpRequest.prototype.open)
patchXhr(m) == [m EXCEPT !.xhrOpen = Append(@, "part_000")]

\* history.pushState / replaceState wrapped; popstate and spa-navigation listeners
patchHistory(m) ==
  addEventListener(
    addEventListener([m EXCEPT !.historyPatch = @ + 1], "popstate", "onPopstate", FALSE),
    "spa-navigation", "onSpaNavigation", FALSE)

\* The script, top to bottom.
evaluate(m, cx) ==
  LET m1 == identify(m, cx)
      mo == registerObservers(m1, ObserverOrder)
      m2 == sessionStart(mo, cx)
      m3 == errorListeners(sessionEndListeners(m2))
      m4 == patchXhr(patchFetch(m3))
      m5 == addEventListener(m4, "load", "onLoad", FALSE)
      m6 == patchHistory(m5)
      m7 == setInterval(m6, "heartbeat", HeartbeatEvery)
  IN IF mo.aborted THEN mo ELSE addEventListener(m7, "load", "sendHeartbeat", FALSE)

\* src/rum-sass.js, one variant, top to bottom: v is "_v1" or "_v2", w the name of
\* its fetch wrapper.
evaluateVariant(m, cx, v, w) ==
  LET m1 == registerObservers(identify(m, cx), ObserverOrder)
      m2 == addEventListener(addEventListener(m1, "error", "onError" \o v, FALSE),
                             "unhandledrejection", "onUnhandledRejection" \o v, FALSE)
      m3 == [m2 EXCEPT !.windowFetch = Append(@, w), !.xhrOpen = Append(@, w)]
      m4 == addEventListener(addEventListener(m3, "load", "onLoadEnvironment" \o v, FALSE),
                             "load", "onLoadPageLoad" \o v, FALSE)
      m5 == addEventListener(
              addEventListener([m4 EXCEPT !.historyPatch = @ + 1],
                               "popstate", "onPopstate", FALSE),
              "spa-navigation", "onSpaNavigation" \o v, FALSE)
      m6 == setInterval(m5, "heartbeat" \o v, HeartbeatEvery)
  IN addEventListener(m6, "load", "sendHeartbeat" \o v, FALSE)

\* src/rum-sass.js, top to bottom: the first variant, then the second.
evaluateBoth(m, cx) ==
  evaluateVariant(evaluateVariant(m, cx, "_v1", "rum-sass.js#1"), cx, "_v2", "rum-sass.js#2")

\* Mutant: { ...extra, name, value }
logBusinessMetricArgsLast(m, cx, name, value, extra) ==
  sendMetrics(m, cx, [trigger |-> "business_metric",
                      business |-> [name |-> name, value |-> value] @@ extra])

\* The public hook window.__rumLogBusiness(name, value, extra): { name, value, ...extra }
logBusinessMetric(m, cx, name, value, extra) ==
  sendMetrics(m, cx, [trigger |-> "business_metric",
                      business |-> extra @@ [name |-> name, value |-> value]])

\* history.pushState / replaceState as patched: every wrapper calls the one it
\* wraps and then dispatches 'spa-navigation'.
RECURSIVE patchedHistory(_, _, _)
patchedHistory(m, cx, n) ==
  IF n = 0 THEN m
  ELSE dispatchEvent(patchedHistory(m, cx, n - 1), cx, [type |-> "spa-navigation"])

\* ---------------------------------------------------------------- request headers

\* The header names of a request.  kind is "none" (no headers given), "plain"
\* (an object literal) or "Headers" (a Headers instance, whose entries are not
\* own enumerable properties).
NoHeaders == [kind |-> "none", names |-> {}]

HeadersOf(x) == IF "headers" \in DOMAIN x THEN x.headers ELSE NoHeaders

\* The two headers the agent adds to a call.
RumHeaders == {"X-RUM-Session-Id", "X-RUM-Endpoint-Id"}

\* { ...(init.headers || {}) }: the own enumerable properties of the value.
SpreadHeaders(h) == IF h.kind = "plain" THEN h.names ELSE {}

\* init.headers = { ...(init.headers || {}), 'X-RUM-Session-Id': ..., 'X-RUM-Endpoint-Id': ... }
injectHeaders(init) ==
  [headers |-> [kind |-> "plain", names |-> SpreadHeaders(HeadersOf(init)) \cup RumHeaders]]
    @@ init

\* The init a wrapper hands to the function it wraps.
InitPassedBy(w, init) ==
  CASE w = "part_000" -> injectHeaders(init)
    [] w = "rum-sass.js#1" -> injectHeaders(init)
    [] w = "rum-sass.js#2" -> init

\* The init that reaches the browser's fetch through the wrappers, the outermost
\* (last installed) first.
RECURSIVE InitDispatched(_, _)
InitDispatched(wrappers, init) ==
  IF wrappers = <<>> THEN init
  ELSE InitDispatched(SubSeq(wrappers, 1, Len(wrappers) - 1),
                      InitPassedBy(wrappers[Len(wrappers)], init))

\* The headers the browser's fetch(input, init) sends: those of init when it has
\* any, else those of a Request input.
RequestHeaders(input, init) ==
  IF HeadersOf(init).kind # "none" THEN HeadersOf(init).names ELSE HeadersOf(input).names

\* The headers of the call as the browser's fetch dispatches it.
DispatchedHeaders(call) ==
  RequestHeaders(call.input, InitDispatched(call.wrappers, call.init))

\* ---------------------------------------------------------------- inputs

\* What the page's code passes to window.fetch.
UrlString == StringInput("/api")

RequestObject == [kind |-> "Request", href |-> "/api", url |-> "/api"]

UrlObject == [kind |-> "URL", href |-> "/api", url |-> UNDEFINED]

NoInit == [method |-> NULL]

PostInitLower == [method |-> "post"]

\* A Request built with a header of its own, and ways to pass headers in init.
RequestWithHeaders ==
  [kind |-> "Request", href |-> "/api", url |-> "/api",
   headers |-> [kind |-> "Headers", names |-> {"Accept"}]]

InitPlainHeaders == [method |-> NULL, headers |-> [kind |-> "plain", names |-> {"Authorization"}]]

InitHeadersInstance ==
  [method |-> NULL, headers |-> [kind |-> "Headers", names |-> {"Authorization"}]]

FetchInputs == {UrlString, RequestObject, UrlObject, RequestWithHeaders}

FetchInits == {NoInit, PostInitLower, InitPlainHeaders, InitHeadersInstance}

ErrorEvent == [type |-> "error", message |-> "boom", filename |-> "app.js", error |-> NULL]

RejectionEvents == {[type |-> "unhandledrejection", reason |-> r] : r \in RejectValues}

\* Layout-shift entries, their values in thousandths, and the batches an
\* observer callback is handed.
ShiftEntries == {[value |-> v, hadRecentInput |-> b] : v \in {50, 120}, b \in BOOLEAN}

ShiftBatches ==
  {<<e>> : e \in ShiftEntries}
    \cup {<<e, f>> : e \in ShiftEntries, f \in {g \in ShiftEntries : g.value = 50}}

\* The entries a browser hands to the other observers.
FirstPaint(t) == PerfEntry("paint", "first-paint", t, 0, 0, 0)

FirstContentfulPaint(t) == PerfEntry("paint", "first-contentful-paint", t, 0, 0, 0)

LargestContentfulPaint(t) == PerfEntry("largest-contentful-paint", "", t, 0, 0, 0)

FirstInput(startTime, processingStart) ==
  PerfEntry("first-input", "pointerdown", startTime, processingStart, 8, 7)

EventTiming(interactionId, duration) == PerfEntry("event", "click", 30, 31, duration, interactionId)

PaintBatches ==
  {<<FirstPaint(5)>>, <<FirstContentfulPaint(9)>>, <<FirstPaint(5), FirstContentfulPaint(9)>>}

LcpBatches ==
  {<<LargestContentfulPaint(9)>>, <<LargestContentfulPaint(9), LargestContentfulPaint(12)>>}

FirstInputBatches == {<<FirstInput(20, 20)>>, <<FirstInput(20, 23)>>}

\* Interactions as they happen, before the browser applies the threshold.
EventBatches ==
  {<<EventTiming(7, 8)>>, <<EventTiming(7, 16)>>, <<EventTiming(7, 24)>>, <<EventTiming(0, 24)>>,
   <<EventTiming(7, 32), EventTiming(0, 40)>>}

\* What this browser supports: everything, nothing, or all but one type.
SupportChoices == {EntryTypes, {}} \cup {EntryTypes \ {t} : t \in EntryTypes}

NoExtra == [k \in {} |-> ""]

Extras == {NoExtra, [step |-> "payment"], [name |-> "other"]}

\* --------------------------------------------------------------- actions

Blank == [session_id |-> NULL, endpoint_id |-> NULL]

\* The bounds on what one step may leave behind.
Within(m) == Len(m.calls) <= MaxCalls

\* One stimulus from outside the agent is consumed, of at most `limit`.
Stimulus(limit) == events < limit /\ events' = events + 1

InitPage ==
  /\ sendBeacon \in BOOLEAN
  /\ sessionStorage = [rum_session_id |-> NULL, rum_session_start |-> NULL]
  /\ now = 1
  /\ pageNo = 1
  /\ pc = "loading"
  /\ rumIds = Blank
  /\ visibilityState \in {"visible", "hidden"}
  /\ listeners = <<>>
  /\ windowFetch = <<>>
  /\ historyPatch = 0
  /\ loadFired = FALSE
  /\ timers = <<>>
  /\ vitals = InitialVitals
  /\ calls = <<>>
  /\ sent = <<>>
  /\ events = 0
  /\ hookCalls = <<>>
  /\ shifts = <<>>
  /\ navs = 0
  /\ xhrOpen = <<>>
  /\ xhrs = <<>>
  /\ observers = {}
  /\ observed = <<>>

\* A browser that can observe every entry type the agent asks for.
Init == supported = EntryTypes /\ InitPage

\* A browser that may lack some entry types, or PerformanceObserver altogether.
InitObservers == supported \in SupportChoices /\ InitPage

\* The page's script tag is reached: the agent is evaluated.
Evaluate ==
  /\ pc = "loading"
  /\ LET m == evaluate(Machine, Ctx(0))
     IN Within(m) /\ Commit(m)
  /\ pc' = "running"
  /\ UNCHANGED <<sendBeacon, now, pageNo, visibilityState, loadFired, events, hookCalls, shifts,
                 navs, supported, observed>>

\* The page's script tag of src/rum-sass.js is reached: both variants are evaluated.
EvaluateBoth ==
  /\ pc = "loading"
  /\ LET m == evaluateBoth(Machine, Ctx(0))
     IN Within(m) /\ Commit(m)
  /\ pc' = "running"
  /\ UNCHANGED <<sendBeacon, now, pageNo, visibilityState, loadFired, events, hookCalls, shifts,
                 navs, supported, observed>>

\* The tab loads the page again: a new document, the same sessionStorage.
Reload(limit) ==
  /\ pc = "running"
  /\ pageNo < MaxLoads
  /\ Stimulus(limit)
  /\ pageNo' = pageNo + 1
  /\ pc' = "loading"
  /\ rumIds' = Blank
  /\ listeners' = <<>>
  /\ windowFetch' = <<>>
  /\ historyPatch' = 0
  /\ loadFired' = FALSE
  /\ timers' = <<>>
  /\ vitals' = InitialVitals
  /\ shifts' = <<>>
  /\ navs' = 0
  /\ xhrOpen' = <<>>
  /\ xhrs' = <<>>
  /\ observers' = {}
  /\ observed' = <<>>
  /\ UNCHANGED <<sendBeacon, sessionStorage, now, visibilityState, calls, sent, hookCalls,
                 supported>>

\* A step of the running page that leaves it in machine state m.
Run(m) ==
  /\ Within(m)
  /\ Commit(m)
  /\ UNCHANGED <<sendBeacon, now, pageNo, pc, supported>>

\* Such a step that is no call of the hook, no observation and no navigation.
Step(m) == Run(m) /\ UNCHANGED <<hookCalls, shifts, navs, observed>>

\* The page holds the agent's script tag once more: the agent is evaluated again
\* in the running page.
EvaluateAgain ==
  /\ pc = "running"
  /\ Len(windowFetch) < MaxEvaluations
  /\ Step(evaluate(Machine, Ctx(0)))
  /\ UNCHANGED <<visibilityState, loadFired, events>>

WindowLoad(limit) ==
  /\ pc = "running"
  /\ ~loadFired
  /\ Stimulus(limit)
  /\ Step(dispatchEvent(Machine, Ctx(0), [type |-> "load"]))
  /\ loadFired' = TRUE
  /\ UNCHANGED visibilityState

PageHide(limit) ==
  /\ pc = "running"
  /\ Stimulus(limit)
  /\ Step(dispatchEvent(Machine, Ctx(0), [type |-> "pagehide"]))
  /\ UNCHANGED <<visibilityState, loadFired>>

BeforeUnload(limit) ==
  /\ pc = "running"
  /\ Stimulus(limit)
  /\ Step(dispatchEvent(Machine, Ctx(0), [type |-> "beforeunload"]))
  /\ UNCHANGED <<visibilityState, loadFired>>

\* The tab is hidden or shown: the state changes, then the event is dispatched.
VisibilityChange(limit) ==
  /\ pc = "running"
  /\ Stimulus(limit)
  /\ visibilityState' = IF visibilityState = "visible" THEN "hidden" ELSE "visible"
  /\ Step(dispatchEvent(Machine, [Ctx(0) EXCEPT !.visibility = visibilityState'],
                        [type |-> "visibilitychange"]))
  /\ UNCHANGED loadFired

\* The application navigates: history.pushState, history.replaceState, or the
\* user goes back or forward (popstate).
Navigate(limit) ==
  /\ pc = "running"
  /\ navs < MaxNavs
  /\ Stimulus(limit)
  /\ \E how \in {"pushState", "replaceState", "popstate"} :
       Run(IF how = "popstate"
             THEN dispatchEvent(Machine, Ctx(0), [type |-> "popstate"])
             ELSE patchedHistory(Machine, Ctx(0), historyPatch))
  /\ navs' = navs + 1
  /\ UNCHANGED <<visibilityState, loadFired, hookCalls, shifts, observed>>

\* An uncaught error or an unhandled rejection in the page.
JsError(limit, errors) ==
  /\ pc = "running"
  /\ Stimulus(limit)
  /\ \E event \in errors : Step(dispatchEvent(Machine, Ctx(0), event))
  /\ UNCHANGED <<visibilityState, loadFired>>

\* The page calls window.__rumLogBusiness(name, value, extra).
LogBusiness(limit, extras) ==
  /\ pc = "running"
  /\ Stimulus(limit)
  /\ \E extra \in extras :
       /\ Run(logBusinessMetric(Machine, Ctx(0), "checkout_latency", 1452, extra))
       /\ hookCalls' = Append(hookCalls, [name |-> "checkout_latency", value |-> 1452,
                                          extra |-> extra])
  /\ UNCHANGED <<visibilityState, loadFired, shifts, navs, observed>>

\* The browser hands the layout-shift observer a batch of entries.
LayoutShift(limit, batches) ==
  /\ pc = "running"
  /\ "layout-shift" \in observers
  /\ Stimulus(limit)
  /\ \E batch \in batches :
       /\ Run([Machine EXCEPT !.vitals.cls = clsObserver(@, batch)])
       /\ shifts' = shifts \o batch
  /\ UNCHANGED <<visibilityState, loadFired, hookCalls, navs, observed>>

\* The entry names handed to observers so far in this page load.
Delivered == {observed[i].name : i \in 1..Len(observed)}

\* first-paint, first-contentful-paint and first-input each occur once in a
\* document: the browser never hands an observer a second one.
OncePerDocument(batch) ==
  /\ \A i \in 1..Len(batch) :
       batch[i].entryType \in {"paint", "first-input"} => batch[i].name \notin Delivered
  /\ \A i, j \in 1..Len(batch) :
       (i # j /\ batch[i].entryType \in {"paint", "first-input"})
         => batch[i].name # batch[j].name

\* The browser hands the observer of a type a batch of entries: of those that
\* happened, the ones it queues for that observer.
Observe(limit, type, batches) ==
  /\ pc = "running"
  /\ type \in observers
  /\ Stimulus(limit)
  /\ \E happened \in batches :
       LET batch == IF type = "event" THEN SelectSeq(happened, ShouldAdd) ELSE happened
       IN /\ batch # <<>>
          /\ OncePerDocument(batch)
          /\ Run([Machine EXCEPT !.vitals = ObserverCallback(type, @, batch)])
          /\ observed' = observed \o [i \in 1..Len(batch) |-> [at |-> now] @@ batch[i]]
  /\ UNCHANGED <<visibilityState, loadFired, hookCalls, shifts, navs>>

\* The page's own code calls window.fetch(input, init).
AppFetch(limit, inputs, inits) ==
  /\ pc = "running"
  /\ Stimulus(limit)
  /\ \E input \in inputs, init \in inits :
       Step(fetch(Machine, Ctx(0), input, init, "app"))
  /\ UNCHANGED <<visibilityState, loadFired>>

\* The page's own code calls open(method, url) on a new XMLHttpRequest, or again
\* on one whose call has ended.
XhrOpen(limit, methods, urls) ==
  /\ pc = "running"
  /\ Stimulus(limit)
  /\ \E method \in methods, url \in urls :
       \/ /\ Len(xhrs) < MaxXhrs
          /\ Step([Machine EXCEPT
                    !.xhrs = Append(@, open(NewXhr, Ctx(0), method, url, xhrOpen))])
       \/ \E k \in 1..Len(xhrs) :
            /\ xhrs[k].readyState = 4
            /\ Step([Machine EXCEPT !.xhrs[k] = open(@, Ctx(0), method, url, xhrOpen)])
  /\ UNCHANGED <<visibilityState, loadFired>>

\* An opened XMLHttpRequest is sent and its call ends, with a response of the
\* given status or with none (status 0): loadend is dispatched on the object.
XhrLoadEnd(limit, statuses) ==
  /\ pc = "running"
  /\ Stimulus(limit)
  /\ \E k \in 1..Len(xhrs), status \in statuses :
       /\ xhrs[k].readyState = 1
       /\ LET m0 == [Machine EXCEPT !.xhrs[k].readyState = 4, !.xhrs[k].ended = @ + 1]
              cx == Ctx(XhrCause(XhrEndedIn(xhrs) + 1))
          IN Step(dispatchLoadEnd(m0, cx, xhrs[k], status, xhrs[k].loadend))
  /\ UNCHANGED <<visibilityState, loadFired>>

\* The network settles a pending call of this page; the wrappers react.
Settle(limit, outcomes) ==
  /\ pc = "running"
  /\ Stimulus(limit)
  /\ \E id \in 1..Len(calls), out \in outcomes :
       /\ calls[id].page = pageNo
       /\ calls[id].native.kind = "pending"
       /\ LET r == Unwind(Machine, Ctx(RootOf(id)), calls[id], out, 1)
              seen == IF calls[id].origin = "delivery" THEN postCatch(r.out) ELSE r.out
          IN Step([r.m EXCEPT !.calls[id].native = out, !.calls[id].seen = seen])
  /\ UNCHANGED <<visibilityState, loadFired>>

Due == {i \in 1..Len(timers) : timers[i].left = 0}

\* The time to the next timer (one tick where none is set).
NextDue ==
  IF timers = <<>> THEN 1
  ELSE CHOOSE d \in 0..HeartbeatEvery :
         /\ \E i \in 1..Len(timers) : timers[i].left = d
         /\ \A i \in 1..Len(timers) : timers[i].left >= d

\* Time passes by d, no timer being due.
Pass(d) ==
  /\ pc = "running"
  /\ Due = {}
  /\ d <= NextDue
  /\ now + d <= MaxTime
  /\ now' = now + d
  /\ timers' = [i \in 1..Len(timers) |-> [timers[i] EXCEPT !.left = @ - d]]
  /\ UNCHANGED <<sendBeacon, sessionStorage, pageNo, pc, rumIds, visibilityState, listeners,
                 windowFetch, historyPatch, loadFired, vitals, calls, sent, hookCalls, shifts,
                 navs, xhrOpen, xhrs, supported, observers, observed>>

\* The user waits: 100 ms, or until the next timer is due.
Wait(limit) == Stimulus(limit) /\ \E d \in {1, NextDue} : Pass(d)

\* The page is left alone until the next timer is due.
Idle == Pass(NextDue) /\ UNCHANGED events

RemoveAt(seq, i) == SubSeq(seq, 1, i - 1) \o SubSeq(seq, i + 1, Len(seq))

\* The first due timer runs; an interval is armed again.
FireTimer ==
  /\ pc = "running"
  /\ Due # {}
  /\ LET i == CHOOSE j \in Due : \A k \in Due : j <= k
         t == timers[i]
         m0 == [Machine EXCEPT !.timers = IF t.every > 0
                                           THEN [@ EXCEPT ![i].left = t.every]
                                           ELSE RemoveAt(@, i)]
     IN Step(RunTimer(m0, Ctx(0), t.fn))
  /\ UNCHANGED <<visibilityState, loadFired, events>>

Next ==
  \/ Evaluate
  \/ Reload(MaxEvents)
  \/ WindowLoad(MaxEvents)
  \/ PageHide(MaxEvents)
  \/ BeforeUnload(MaxEvents)
  \/ VisibilityChange(MaxEvents)
  \/ Navigate(MaxEvents)
  \/ JsError(MaxEvents, {ErrorEvent, [type |-> "unhandledrejection", reason |-> NullErr]})
  \/ LogBusiness(MaxEvents, Extras)
  \/ AppFetch(MaxEvents, {UrlString}, {NoInit})
  \/ Settle(MaxEvents, {Fulfilled(200), Fulfilled(500), Rejected(TypeErr)})
  \/ Wait(MaxEvents)
  \/ FireTimer

Spec == Init /\ [][Next]_vars

\* One page load, the application navigating.  Timers fire when due, and time
\* goes on while none is.
NextNav ==
  \/ Evaluate
  \/ Navigate(MaxNavEvents)
  \/ Wait(MaxNavEvents)
  \/ Idle
  \/ FireTimer

SpecNav == Init /\ [][NextNav]_vars /\ WF_vars(FireTimer) /\ WF_vars(Idle)

\* One page load, the layout shifting.
NextVitals ==
  \/ Evaluate
  \/ LayoutShift(MaxVitalEvents, ShiftBatches)
  \/ WindowLoad(MaxVitalEvents)
  \/ Navigate(MaxVitalEvents)
  \/ Idle
  \/ FireTimer

SpecVitals == Init /\ [][NextVitals]_vars

\* One page load, the observers being handed entries.
NextObservers ==
  \/ Evaluate
  \/ Observe(MaxObserverEvents, "paint", PaintBatches)
  \/ Observe(MaxObserverEvents, "largest-contentful-paint", LcpBatches)
  \/ Observe(MaxObserverEvents, "first-input", FirstInputBatches)
  \/ Observe(MaxObserverEvents, "event", EventBatches)
  \/ WindowLoad(MaxObserverEvents)
  \/ Navigate(MaxObserverEvents)
  \/ Idle
  \/ FireTimer

SpecObservers == Init /\ [][NextObservers]_vars

\* One page load in a browser that may lack entry types, or PerformanceObserver.
NextUnsupported ==
  \/ Evaluate
  \/ Observe(MaxUnsupportedEvents, "paint", PaintBatches)
  \/ Observe(MaxUnsupportedEvents, "largest-contentful-paint", LcpBatches)
  \/ Observe(MaxUnsupportedEvents, "first-input", FirstInputBatches)
  \/ Observe(MaxUnsupportedEvents, "event", EventBatches)
  \/ LayoutShift(MaxUnsupportedEvents, {<<e>> : e \in ShiftEntries})
  \/ WindowLoad(MaxUnsupportedEvents)
  \/ Idle
  \/ FireTimer

SpecUnsupported == InitObservers /\ [][NextUnsupported]_vars

\* One page load, the application calling through XMLHttpRequest.
NextXhr ==
  \/ Evaluate
  \/ XhrOpen(MaxXhrEvents, {"GET", "post"}, {"/api"})
  \/ XhrLoadEnd(MaxXhrEvents, {200, 500, 0})

SpecXhr == Init /\ [][NextXhr]_vars

\* One page load in which the agent may be evaluated more than once.
NextTwice ==
  \/ Evaluate
  \/ EvaluateAgain
  \/ AppFetch(MaxTwiceEvents, {UrlString}, {NoInit})
  \/ Settle(MaxTwiceEvents, {Fulfilled(200), Fulfilled(500)})
  \/ XhrOpen(MaxTwiceEvents, {"GET"}, {"/api"})
  \/ XhrLoadEnd(MaxTwiceEvents, {200, 500})

SpecTwice == Init /\ [][NextTwice]_vars

\* One page load of src/rum-sass.js.
NextSass ==
  \/ EvaluateBoth
  \/ WindowLoad(MaxSassEvents)
  \/ Navigate(MaxSassEvents)
  \/ JsError(MaxSassEvents, {ErrorEvent} \cup RejectionEvents)
  \/ AppFetch(MaxSassEvents, {UrlString}, {NoInit})
  \/ Settle(MaxSassEvents, Outcomes)
  \/ XhrOpen(MaxSassEvents, {"GET"}, {"/api"})
  \/ XhrLoadEnd(MaxSassEvents, {200, 0})
  \/ Idle
  \/ FireTimer

SpecSass == Init /\ [][NextSass]_vars

\* The page's code calls fetch with every kind of input and init.
NextCalls ==
  \/ Evaluate
  \/ AppFetch(MaxCallEvents, FetchInputs, FetchInits)
  \/ Settle(MaxCallEvents, Outcomes)
  \/ XhrOpen(MaxCallEvents, {"GET", "post"}, {"/api"})
  \/ XhrLoadEnd(MaxCallEvents, {200, 500})

SpecCalls == Init /\ [][NextCalls]_vars

\* ================================================================ claims

Trigger(i) == sent[i].payload.trigger

\* The envelopes of page load p with trigger t.
Emitted(p, t) == {i \in 1..Len(sent) : sent[i].page = p /\ Trigger(i) = t}

\* The envelopes with trigger t that are a consequence of application call id.
Records(id, t) == {i \in 1..Len(sent) : sent[i].cause = id /\ Trigger(i) = t}

AppCalls == {id \in 1..Len(calls) : calls[id].origin = "app"}

\* C1 (as claimed): a page load sends at most one session_end envelope, however
\* page-hide, visibility-to-hidden and before-unload follow one another.
C1_OneSessionEndPerPage ==
  \A p \in 1..pageNo : Cardinality(Emitted(p, "session_end")) <= 1

\* C2: an evaluation that finds no start marker emits one session_start envelope,
\* and a session_start envelope is the first envelope of its page load (so there
\* is one at most, and every other envelope of the load comes after it).
C2_EvaluationStartsSession ==
  (pc = "loading" /\ pc' = "running" /\ NoStartMarker(sessionStorage))
    => /\ Len(sent') = Len(sent) + 1
       /\ sent'[Len(sent')].payload.trigger = "session_start"
       /\ sent'[Len(sent')].page = pageNo

C2_StartIsFirstOfPage ==
  \A i \in 1..Len(sent) :
    Trigger(i) = "session_start" => \A j \in 1..(i - 1) : sent[j].page # sent[i].page

\* C2: both, in every behaviour.
C2_SessionStartFirst == []C2_StartIsFirstOfPage /\ [][C2_EvaluationStartsSession]_vars

\* C2 witness: a session_start envelope followed by another envelope of its load.
C2_Witness ==
  \E i, j \in 1..Len(sent) :
    /\ i < j
    /\ sent[i].page = sent[j].page
    /\ Trigger(i) = "session_start"
    /\ Trigger(j) = "heartbeat"

\* C3 (as claimed): an application call resolved with status >= 400 has, among
\* all the records it led to, one api_call_error and no api_call; one resolved
\* with a lower status has one api_call and no api_call_error.
C3_OneRecordPerResolvedCall ==
  \A id \in AppCalls :
    calls[id].native.kind = "fulfilled" =>
      IF calls[id].native.status >= 400
        THEN /\ Cardinality(Records(id, "api_call_error")) = 1
             /\ Cardinality(Records(id, "api_call")) = 0
        ELSE /\ Cardinality(Records(id, "api_call")) = 1
             /\ Cardinality(Records(id, "api_call_error")) = 0

\* C4 (as claimed): an application call that failed led to one api_call_exception
\* record, with status null and the failure's message, and its caller saw the
\* value the original call rejected with.
C4_OneExceptionRecordAndRethrow ==
  \A id \in AppCalls :
    calls[id].native.kind = "rejected" =>
      /\ Cardinality(Records(id, "api_call_exception")) = 1
      /\ \A i \in Records(id, "api_call_exception") :
           /\ sent[i].payload.api.status = None
           /\ sent[i].payload.api.error = calls[id].native.err.v
      /\ calls[id].seen = calls[id].native

\* C6: every envelope of the tab carries the session identifier the tab's
\* storage holds, which is stored before any envelope is sent.
C6_OneSessionIdPerTab ==
  /\ sent # <<>> => sessionStorage.rum_session_id # NULL
  /\ \A i \in 1..Len(sent) : sent[i].payload.session_id = sessionStorage.rum_session_id

\* C6 witness: envelopes of two page loads, the second evaluated later.
C6_Witness ==
  \E i, j \in 1..Len(sent) :
    /\ sent[i].page = 1
    /\ Trigger(i) = "session_start"
    /\ sent[j].page = 2
    /\ Trigger(j) = "session_end"
    /\ sent[j].payload.session.end_epoch_ms > sent[i].payload.session.start_epoch_ms

\* C7: the tab sends at most one session_start envelope, and the stored start
\* marker stays the one that envelope's evaluation stored.
C7_SessionResumed ==
  /\ Cardinality({i \in 1..Len(sent) : Trigger(i) = "session_start"}) <= 1
  /\ \A i \in 1..Len(sent) :
       Trigger(i) = "session_start" =>
         sessionStorage.rum_session_start = String(sent[i].payload.session.start_epoch_ms)

\* C7 witness: the page was loaded again, later, and evaluated.
C7_Witness ==
  /\ pageNo = 2
  /\ pc = "running"
  /\ sessionStorage.rum_session_start # String(now)
  /\ Cardinality({i \in 1..Len(sent) : Trigger(i) = "session_start"}) = 1

\* What the lifecycle scheduler keeps.
Lifecycle == <<sessionStorage, rumIds, pc, pageNo, listeners, timers, windowFetch,
               historyPatch, loadFired, visibilityState, vitals>>

\* The last call of the public hook, and the step being such a call.
HookCalled == Len(hookCalls') = Len(hookCalls) + 1

\* C9 (as claimed): a call of the hook emits one business_metric envelope whose
\* business field has the name and the value given and every key of extra.
C9_HookPassThroughOriginal ==
  HookCalled =>
    LET h == hookCalls'[Len(hookCalls')]
        e == sent'[Len(sent')].payload
    IN /\ Len(sent') = Len(sent) + 1
       /\ e.trigger = "business_metric"
       /\ e.business.name = h.name
       /\ e.business.value = h.value
       /\ \A k \in DOMAIN h.extra : e.business[k] = h.extra[k]
       /\ UNCHANGED Lifecycle

\* C9 (as claimed), of every step.
C9_Original == [][C9_HookPassThroughOriginal]_vars

\* C9 (amended): ... whose business field has every key of extra with its value,
\* and the name and the value given unless extra has a key of that name.
C9_HookPassThroughAmended ==
  HookCalled =>
    LET h == hookCalls'[Len(hookCalls')]
        e == sent'[Len(sent')].payload
    IN /\ Len(sent') = Len(sent) + 1
       /\ e.trigger = "business_metric"
       /\ "name" \notin DOMAIN h.extra => e.business.name = h.name
       /\ "value" \notin DOMAIN h.extra => e.business.value = h.value
       /\ \A k \in DOMAIN h.extra : e.business[k] = h.extra[k]
       /\ DOMAIN e.business = {"name", "value"} \cup DOMAIN h.extra
       /\ UNCHANGED Lifecycle

\* C9 (amended), of every step.
C9_HookPassThrough == [][C9_HookPassThroughAmended]_vars

\* C9 witness: the hook was called with extra = {step: "payment"}.
C9_Witness ==
  \E i \in 1..Len(sent) :
    /\ Trigger(i) = "business_metric"
    /\ DOMAIN sent[i].payload.business = {"name", "value", "step"}
    /\ sent[i].payload.business.step = "payment"
    /\ sent[i].payload.business.name = "checkout_latency"

\* The envelopes of this page load with trigger spa_navigation, and the settle
\* timers pending.
SpaEmitted == Cardinality(Emitted(pageNo, "spa_navigation"))

SpaPending == Cardinality({i \in 1..Len(timers) : timers[i].fn = "spa_navigation"})

\* C5: every navigation has its own emission, sent or still scheduled, and
\* time and again there have been as many spa_navigation envelopes sent as
\* navigations made.
C5_EmissionPerNavigation == SpaEmitted + SpaPending = navs

\* C5: the count is kept in every state, and the envelopes catch up with the
\* navigations again and again.
C5_EveryNavigationEmits == []C5_EmissionPerNavigation /\ []<>(SpaEmitted = navs)

\* C5 witness: two spa_navigation envelopes sent 100 ms apart, so that the
\* second navigation came while the first settle timer was pending.
C5_Witness ==
  \E i, j \in Emitted(pageNo, "spa_navigation") :
    /\ sent[j].payload.timestamp = sent[i].payload.timestamp + 1
    /\ SpaEmitted = navs

\* The sum of the values of the entries not flagged hadRecentInput.
RECURSIVE SumUnflagged(_)
SumUnflagged(entries) ==
  IF entries = <<>> THEN 0
  ELSE (IF Head(entries).hadRecentInput THEN 0 ELSE Head(entries).value)
         + SumUnflagged(Tail(entries))

\* The envelopes the assembler made that this step sends.
NewVitals ==
  {i \in (Len(sent) + 1)..Len(sent') :
     sent'[i].payload.trigger \in {"page_load", "spa_navigation"}}

\* C8: the running value is the sum of the values of the entries observed and
\* not flagged hadRecentInput, the assembler reports that sum, and no step of a
\* page load lowers it.
C8_ClsIsSum == pc = "running" => vitals.cls = SumUnflagged(shifts)

C8_ClsReportedAndKept ==
  /\ \A i \in NewVitals :
       sent'[i].payload.metrics.cumulative_layout_shift = SumUnflagged(shifts)
  /\ (pc = "running" /\ pc' = "running") => vitals'.cls >= vitals.cls

\* C8: the value is the exact sum in every state, and is reported and kept by
\* every step.
C8_ClsExactAndMonotone == []C8_ClsIsSum /\ [][C8_ClsReportedAndKept]_vars

\* C8 witness: the assembler reported 170 after batches with flagged and
\* unflagged entries.
C8_Witness ==
  /\ \E i \in 1..Len(shifts) : shifts[i].hadRecentInput
  /\ \E i, j \in 1..Len(shifts) : i # j /\ ~shifts[i].hadRecentInput /\ ~shifts[j].hadRecentInput
  /\ \E i \in Emitted(pageNo, "spa_navigation") :
       sent[i].payload.metrics.cumulative_layout_shift = 170

ErrorTriggers == {"js_error", "js_promise_rejection", "api_call_error", "api_call_exception"}

\* The last path segment of the endpoint.
IsErrorsEndpoint(url) == url \in {ErrorsUrl, ApiBaseUrl \o ErrorsUrl}

IsMetricsEndpoint(url) == url \in {MetricsUrl, ApiBaseUrl \o MetricsUrl}

\* C10 (as claimed): an error envelope goes by the standard request to the errors
\* endpoint; any other envelope goes to the metrics endpoint, by the beacon
\* when there is one and by the standard request when there is none.
C10_ChannelSelection ==
  \A i \in 1..Len(sent) :
    IF Trigger(i) \in ErrorTriggers
      THEN sent[i].via = "fetch" /\ IsErrorsEndpoint(sent[i].url)
      ELSE /\ sent[i].via = (IF sendBeacon THEN "beacon" ELSE "fetch")
           /\ IsMetricsEndpoint(sent[i].url)

DeliveryCalls == {id \in 1..Len(calls) : calls[id].origin = "delivery"}

\* C11: the promise of a delivery call never settles as rejected, so that no
\* failure of it reaches the page, and an envelope is handed to fetch once: there
\* are as many delivery calls as envelopes sent by the standard request.
C11_DeliveryFailureSwallowed ==
  /\ \A id \in DeliveryCalls : calls[id].seen.kind # "rejected"
  /\ Cardinality(DeliveryCalls) = Cardinality({i \in 1..Len(sent) : sent[i].via = "fetch"})

\* C11 witness: a delivery call failed and its failure was taken.
C11_Witness ==
  \E id \in DeliveryCalls :
    calls[id].native.kind = "rejected" /\ calls[id].seen.kind = "swallowed"

EnvelopeFields == {"trigger", "timestamp", "url", "session_id", "endpoint_id"}

\* C12 (as claimed): every envelope handed to the transport has the fields
\* trigger, timestamp, url, session_id and endpoint_id.
C12_EnvelopeFields == \A i \in 1..Len(sent) : EnvelopeFields \subseteq DOMAIN sent[i].payload

\* The network call records that XHR call n of this page load led to.
XhrRecords(n) ==
  {i \in 1..Len(sent) :
     /\ sent[i].page = pageNo
     /\ sent[i].cause = XhrCause(n)
     /\ "api" \in DOMAIN sent[i].payload
     /\ sent[i].payload.api.type = "xhr"}

\* C14 (as claimed): an XHR call that ended with status 0 has an
\* api_call_exception record and no api_call record.
C14_XhrFailureIsException ==
  \A n \in 1..XhrEndedIn(xhrs) :
    \A i \in XhrRecords(n) :
      sent[i].payload.api.status = Some(0) => Trigger(i) = "api_call_exception"

\* C18 (as claimed): every XHR call that has ended led to one network call
\* record, whatever was opened and sent before it.
C18_OneRecordPerXhrCall ==
  \A n \in 1..XhrEndedIn(xhrs) : Cardinality(XhrRecords(n)) = 1

\* The network call records describing application call id of window.fetch.
FetchRecords(id) ==
  {i \in 1..Len(sent) :
     /\ sent[i].cause = id
     /\ "api" \in DOMAIN sent[i].payload
     /\ sent[i].payload.api.type = "fetch"
     /\ sent[i].payload.api.endpoint = Endpoint(calls[id].input)}

\* C13 (as claimed): however often the instrumentation was applied, an
\* application call of fetch that got its response has one record describing it,
\* and so has an XHR call that ended on an object opened once.
C13_NoDoubleMeasure ==
  /\ \A id \in AppCalls :
       calls[id].native.kind = "fulfilled" => Cardinality(FetchRecords(id)) = 1
  /\ \A n \in 1..XhrEndedIn(xhrs) :
       (\A k \in 1..Len(xhrs) : Len(xhrs[k].loadend) <= Len(xhrOpen))
         => Cardinality(XhrRecords(n)) = 1

\* A call of the hook made while the envelope of an earlier navigation is still
\* to be emitted does not emit its own envelope in that step.
C15_HookWaitsForNavigation == (HookCalled /\ SpaPending > 0) => Len(sent') = Len(sent)

\* C15 (as claimed, for a navigation and a later call of the hook): envelopes are
\* emitted in the order of their triggering events, so the envelope of the
\* navigation is emitted before that of the call of the hook.
C15_EmittedInEventOrder == [][C15_HookWaitsForNavigation]_vars

\* C16 (as claimed): in a page load, no envelope other than a session_end comes
\* after a session_end envelope.
C16_SessionEndIsTerminal ==
  \A i, j \in 1..Len(sent) :
    (i < j /\ sent[i].page = sent[j].page /\ Trigger(i) = "session_end")
      => Trigger(j) = "session_end"

\* The session-end listener of event evt, and the step in which it is taken off
\* the window: the first dispatch of evt in the page load.
EndListener(evt) == [evt |-> evt, fn |-> "sessionEnd", once |-> TRUE]

FirstDispatch(evt) ==
  /\ \E i \in 1..Len(listeners) : listeners[i] = EndListener(evt)
  /\ \A i \in 1..Len(listeners') : listeners'[i] # EndListener(evt)

\* The page is hidden, the tab goes from visible to hidden, or the page is about
\* to unload, none of which has led to a session_end envelope in this page load
\* before.
FirstUnloadEvent ==
  /\ pc = "running" /\ pc' = "running"
  /\ Emitted(pageNo, "session_end") = {}
  /\ \/ FirstDispatch("pagehide")
     \/ FirstDispatch("beforeunload")
     \/ visibilityState = "visible" /\ visibilityState' = "hidden"

\* A session_end envelope is emitted, with the stored start stamp and an end
\* stamp not before it.
SessionEndEmitted ==
  \E i \in (Len(sent) + 1)..Len(sent') :
    /\ sent'[i].payload.trigger = "session_end"
    /\ sent'[i].payload.session.start_epoch_ms = Some(Number(sessionStorage.rum_session_start))
    /\ sent'[i].payload.session.end_epoch_ms >= Number(sessionStorage.rum_session_start)

\* C17 (as claimed): the first page-hide, visibility-to-hidden or before-unload
\* of a page load emits a session_end envelope, whatever came before it.
C17_FirstUnloadEndsSession == [][FirstUnloadEvent => SessionEndEmitted]_vars

\* The records of network calls among the envelopes.
ApiRecords == {i \in 1..Len(sent) : "api" \in DOMAIN sent[i].payload}

\* C19: every network call record carries a method and an endpoint that are
\* neither null nor undefined, whatever input and init the call was made with.
C19_MethodAndEndpointDefined ==
  \A i \in ApiRecords :
    /\ sent[i].payload.api.method \notin {NULL, UNDEFINED}
    /\ sent[i].payload.api.endpoint \notin {NULL, UNDEFINED}

\* C20: the browser's fetch is called with every header the caller gave, in init
\* or on a Request input, plus exactly the two correlation headers, and a
\* fulfilled call resolves for the caller to the response the browser gave.
C20_HeadersAndResponsePreserved ==
  \A id \in AppCalls :
    /\ DispatchedHeaders(calls[id]) =
         RequestHeaders(calls[id].input, calls[id].init) \cup RumHeaders
    /\ calls[id].native.kind = "fulfilled" => calls[id].seen = calls[id].native

\* The vitals envelopes of this page load.
VitalsEnvelopes ==
  {i \in 1..Len(sent) : sent[i].page = pageNo /\ "metrics" \in DOMAIN sent[i].payload}

\* The first entry of a name handed to an observer in this page load.
FirstObserved(name) ==
  observed[CHOOSE i \in 1..Len(observed) :
             /\ observed[i].name = name
             /\ \A j \in 1..(i - 1) : observed[j].name # name]

\* What an envelope may report for a write-once vital: null before the entry of
\* that name was observed, and the value of the first such entry after.
FirstValue(name, value(_)) ==
  IF name \in Delivered THEN {None, Some(value(FirstObserved(name)))} ELSE {None}

StartTimeOf(e) == e.startTime

InputDelayOf(e) == e.processingStart - e.startTime

C21_Kept ==
  (pc = "running" /\ pc' = "running")
    => /\ vitals.fp # None => vitals'.fp = vitals.fp
       /\ vitals.fcp # None => vitals'.fcp = vitals.fcp
       /\ vitals.fid # None => vitals'.fid = vitals.fid

C21_Reported ==
  \A i \in VitalsEnvelopes :
    LET metrics == sent[i].payload.metrics
    IN /\ metrics.first_paint \in FirstValue("first-paint", StartTimeOf)
       /\ metrics.first_contentful_paint \in FirstValue("first-contentful-paint", StartTimeOf)
       /\ metrics.first_input_delay \in FirstValue("pointerdown", InputDelayOf)

\* C21: first-paint, first-contentful-paint and first-input-delay, once set, are
\* changed by no later observer callback, and every envelope reports the value
\* of the first observation.
C21_WriteOnce == []C21_Reported /\ [][C21_Kept]_vars

\* First-paint was observed, another observer's callback ran after, and an
\* envelope sent later reports first-paint.
C21_Witness ==
  /\ \E i, j \in 1..Len(observed) :
       i < j /\ observed[i].name = "first-paint" /\ observed[j].entryType # "paint"
  /\ \E i \in VitalsEnvelopes :
       sent[i].payload.metrics.first_paint = Some(FirstObserved("first-paint").startTime)

\* The observed event entries that carry an interaction identifier and last
\* longer than the threshold.
Qualifying ==
  {i \in 1..Len(observed) :
     /\ observed[i].entryType = "event"
     /\ observed[i].interactionId # 0
     /\ observed[i].duration > DurationThreshold}

\* C22 (as claimed): interaction-to-next-paint is the duration of the most
\* recent observed event entry that carries an interaction identifier and lasts
\* longer than the 16 ms threshold, and null while there is none.
C22_InpIsLastQualifying ==
  pc = "running"
    => vitals.inp = IF Qualifying = {} THEN None
                    ELSE Some(observed[CHOOSE i \in Qualifying : \A j \in Qualifying : j <= i].duration)

\* The observed event entries that carry an interaction identifier; the browser
\* hands over those that last at least the threshold.
Interactions ==
  {i \in 1..Len(observed) : observed[i].entryType = "event" /\ observed[i].interactionId # 0}

\* C22 (as amended): interaction-to-next-paint is the duration of the most
\* recent observed event entry that carries an interaction identifier, each of
\* which lasts at least the 16 ms threshold; it is null while there is none, and
\* entries without an identifier or shorter than the threshold never change it.
C22_InpIsLastInteraction ==
  pc = "running"
    => /\ \A i \in Interactions : observed[i].duration >= DurationThreshold
       /\ vitals.inp = IF Interactions = {} THEN None
                       ELSE Some(observed[CHOOSE i \in Interactions :
                                            \A j \in Interactions : j <= i].duration)

\* An interaction of exactly the threshold set the value, and a later entry
\* without an identifier left it.
C22_Witness ==
  /\ \E i \in Interactions :
       /\ observed[i].duration = DurationThreshold
       /\ \E j \in (i + 1)..Len(observed) :
            observed[j].entryType = "event" /\ observed[j].interactionId = 0
  /\ vitals.inp = Some(DurationThreshold)

\* The listeners the script installs, as (event, callback) pairs.
InstalledListeners == {<<listeners[i].evt, listeners[i].fn>> : i \in 1..Len(listeners)}

LifecycleListeners ==
  {<<"pagehide", "sessionEnd">>, <<"visibilitychange", "sessionEnd">>,
   <<"beforeunload", "sessionEnd">>, <<"error", "onError">>,
   <<"unhandledrejection", "onUnhandledRejection">>, <<"load", "onLoad">>,
   <<"load", "sendHeartbeat">>, <<"popstate", "onPopstate">>,
   <<"spa-navigation", "onSpaNavigation">>}

\* The vitals fed by the observer of an entry type keep their initial values in
\* the metrics of an envelope.
Untouched(type, metrics) ==
  CASE type = "paint" -> metrics.first_paint = None /\ metrics.first_contentful_paint = None
    [] type = "largest-contentful-paint" -> metrics.largest_contentful_paint = None
    [] type = "first-input" -> metrics.first_input_delay = None
    [] type = "event" -> metrics.interaction_to_next_paint = None
    [] type = "layout-shift" -> metrics.cumulative_layout_shift = 0

\* C23: whichever entry types the browser cannot observe, the script runs to its
\* end: every other observer, both shims, the history patch, the heartbeat and
\* every lifecycle listener are installed, and the vitals of a type that cannot
\* be observed keep their initial values in every envelope.
C23_RegistrationFailureContained ==
  pc = "running"
    => /\ observers = supported
       /\ windowFetch = <<"part_000">> /\ xhrOpen = <<"part_000">> /\ historyPatch = 1
       /\ LifecycleListeners \subseteq InstalledListeners
       /\ \E i \in 1..Len(timers) : timers[i].fn = "heartbeat"
       /\ \A i \in VitalsEnvelopes :
            \A type \in EntryTypes \ supported : Untouched(type, sent[i].payload.metrics)

\* The browser lacks an entry type, the script has run, and an envelope reports
\* a vital fed by another observer.
C23_Witness ==
  /\ pc = "running"
  /\ supported # EntryTypes /\ supported # {}
  /\ \E i \in VitalsEnvelopes :
       \E type \in supported : ~Untouched(type, sent[i].payload.metrics)

\* The endpoints the agent delivers to.
DeliveryUrls == {MetricsUrl, ErrorsUrl}

\* The names in a list of resource entries.
Names(entries) == {entries[i].name : i \in 1..Len(entries)}

\* The vitals envelopes a step emits.
NewVitalsEnvelopes ==
  {i \in (Len(sent) + 1)..Len(sent') : "metrics" \in DOMAIN sent'[i].payload}

\* C24 (as claimed): the resource list of a vitals envelope names no delivery
\* call of the agent, by beacon or by fetch, and names every other resource
\* loaded so far.
C24_NoDeliveryInResources ==
  \A i \in NewVitalsEnvelopes :
    Names(sent'[i].payload.metrics.resources)
      = Names(getResourceEntries(Machine, Ctx(0))) \ DeliveryUrls

C24_ResourcesExcludeDelivery == [][C24_NoDeliveryInResources]_vars

\* The envelopes with trigger t that a step emits.
NewEmitted(t) == {i \in (Len(sent) + 1)..Len(sent') : sent'[i].payload.trigger = t}

\* The pending timers with callback fn.
Pending_(ts, fn) == {i \in 1..Len(ts) : ts[i].fn = fn}

\* The step in which the window's load event is dispatched.
LoadStep == ~loadFired /\ loadFired'

\* A page load has at most one environment and one page_load envelope, the
\* environment envelope is there once the window has loaded, and the page_load
\* envelope comes after it.
C25_OneOfEach ==
  /\ \A p \in 1..pageNo :
       /\ Cardinality(Emitted(p, "environment")) <= 1
       /\ Cardinality(Emitted(p, "page_load")) <= 1
       /\ \A j \in Emitted(p, "page_load") : \E i \in Emitted(p, "environment") : i < j
  /\ pc = "running" => (loadFired <=> Emitted(pageNo, "environment") # {})

\* The load step emits the environment envelope and sets the settle timer; the
\* timer runs down with the clock alone; the page_load envelope is emitted by
\* the step in which the timer, run down, fires.
C25_SettleThenPageLoad ==
  /\ LoadStep => /\ Cardinality(NewEmitted("environment")) = 1
                 /\ NewEmitted("page_load") = {}
                 /\ Pending_(timers, "page_load") = {}
                 /\ \E i \in Pending_(timers', "page_load") : timers'[i].left = LoadSettle
  /\ ~LoadStep => NewEmitted("environment") = {}
  /\ \A i \in Pending_(timers, "page_load"), j \in Pending_(timers', "page_load") :
       timers'[j].left = timers[i].left - (now' - now)
  /\ NewEmitted("page_load") # {}
       => /\ Cardinality(NewEmitted("page_load")) = 1
          /\ \E i \in Pending_(timers, "page_load") : timers[i].left = 0
          /\ Pending_(timers', "page_load") = {}

\* C25: each window load emits one environment envelope at once and one
\* page_load envelope when the settle delay has passed, in that order.
C25_EnvironmentThenPageLoad == []C25_OneOfEach /\ [][C25_SettleThenPageLoad]_vars

\* Both envelopes of a window load are sent, the page_load envelope one settle
\* delay after the load.
C25_Witness ==
  /\ loadFired
  /\ \E i \in Emitted(pageNo, "environment"), j \in Emitted(pageNo, "page_load") :
       i < j /\ sent[j].payload.timestamp >= 1 + LoadSettle

\* The metrics of an envelope are the observers' values v.
Reports(metrics, v) ==
  /\ metrics.first_paint = v.fp
  /\ metrics.first_contentful_paint = v.fcp
  /\ metrics.largest_contentful_paint = v.lcp
  /\ metrics.first_input_delay = v.fid
  /\ metrics.interaction_to_next_paint = v.inp
  /\ metrics.cumulative_layout_shift = v.cls

C26_SnapshotAtTimer ==
  \A i \in NewVitals :
    /\ \E k \in 1..Len(timers) : timers[k].fn = sent'[i].payload.trigger /\ timers[k].left = 0
    /\ Reports(sent'[i].payload.metrics, vitals)
    /\ vitals' = vitals

\* C26: a page_load or spa_navigation envelope is assembled in the step its
\* settle timer fires, reports the observers' values of that moment, and the
\* assembling changes none of them.
C26_VitalsAsOfTimer == [][C26_SnapshotAtTimer]_vars

\* An envelope reports a largest-contentful-paint that was observed after the
\* load or navigation it belongs to, while its settle timer was pending.
C26_Witness ==
  \E j \in Emitted(pageNo, "page_load") \cup Emitted(pageNo, "spa_navigation") :
    \E k \in 1..Len(observed) :
      /\ observed[k].entryType = "largest-contentful-paint"
      /\ observed[k].at = sent[j].payload.timestamp
      /\ observed[k].at > 1
      /\ \A h \in 1..(k - 1) : observed[h].entryType # "largest-contentful-paint"
      /\ sent[j].payload.metrics.largest_contentful_paint # None

\* The step in which the heartbeat interval, run down, fires and is armed again.
HeartbeatTick ==
  /\ \E i \in Pending_(timers, "heartbeat") : timers[i].left = 0
  /\ \E i \in Pending_(timers', "heartbeat") : timers'[i].left = HeartbeatEvery
  /\ now' = now

\* The heartbeat interval is set once in a running page.
C27_OneInterval == pc = "running" => Cardinality(Pending_(timers, "heartbeat")) = 1

\* A step emits one heartbeat envelope when it is the load step or a tick of the
\* interval and none otherwise, each with an environment snapshot; and in every
\* other step of a page load, a navigation or the firing of a settle timer
\* included, the interval runs down with the clock alone.
C27_HeartbeatSteps ==
  /\ Cardinality(NewEmitted("heartbeat")) =
       (IF LoadStep THEN 1 ELSE 0) + (IF HeartbeatTick THEN 1 ELSE 0)
  /\ \A i \in NewEmitted("heartbeat") :
       sent'[i].payload.environment = collectEnvironmentMetrics
  /\ (pc = "running" /\ pc' = "running" /\ ~HeartbeatTick)
       => \A i \in Pending_(timers, "heartbeat"), j \in Pending_(timers', "heartbeat") :
            timers'[j].left = timers[i].left - (now' - now)

\* C27: one heartbeat envelope at window load and one at every tick of the
\* interval; navigations and pending settle timers leave the interval alone.
C27_HeartbeatAtLoadAndTicks == []C27_OneInterval /\ [][C27_HeartbeatSteps]_vars

\* The window has loaded, the application has navigated, and the interval has
\* ticked while a settle timer was pending.
C27_Witness ==
  /\ loadFired /\ navs >= 1
  /\ Cardinality(Emitted(pageNo, "heartbeat")) = 2
  /\ SpaPending >= 1
  /\ \E i \in Pending_(timers, "heartbeat") : timers[i].left = HeartbeatEvery

\* C28 (as claimed): the agent's own delivery requests are not measured: no
\* network call record is about a request to a delivery endpoint, whatever the
\* request's outcome, so that an envelope sent leads to no further envelope.
C28_DeliveryNotMeasured ==
  \A i \in ApiRecords : sent[i].payload.api.endpoint \notin DeliveryUrls

====
